---- MODULE Spec2Model ----
(***************************************************************************)
(* estimate_HOMA_IR.ipynb: the function estimate_homa_ir and the example   *)
(* driver of the notebook.                                                 *)
(*                                                                         *)
(* Numbers are exact rationals <<numerator, denominator>> in lowest terms  *)
(* with a positive denominator; Python's "/" is true division.  The        *)
(* function runs as five assignments on a frame of locals; several         *)
(* invocations (the driver's and the other call sites') may be in flight   *)
(* at once, their statements interleaved.                                  *)
(***************************************************************************)
EXTENDS Integers, Sequences, FiniteSets, TLC

\* ---------------------------------------------------------------- bounds
NumWorkers == 1
MaxDose    == 1
MaxGlucose == 1

\* ------------------------------------------------------ program literals
ExampleInsulin == 20
ExampleGlucose == 140

\* ------------------------------------------------------------ processes
Main    == 0
Workers == 1..NumWorkers
Procs   == {Main} \cup Workers

DoseValues    == ((0 - 1)..MaxDose) \cup {ExampleInsulin}
GlucoseValues == ((0 - 1)..MaxGlucose) \cup {ExampleGlucose}

\* ------------------------------------------------------------- numbers
Unbound == <<>>
ZeroDivisionError == <<0, 0>>

Abs(n) == IF n < 0 THEN 0 - n ELSE n

RECURSIVE GCD(_, _)
GCD(a, b) == IF b = 0 THEN a ELSE GCD(b, a % b)

Norm(n, d) ==
    LET g == GCD(Abs(n), Abs(d))
        s == IF d < 0 THEN 0 - 1 ELSE 1
    IN  <<(s * n) \div g, (s * d) \div g>>

Rat(n) == <<n, 1>>

IsNumber(v) == Len(v) = 2 /\ v[2] > 0

Raised(v) == v # Unbound /\ ~IsNumber(v)

Mul(a, b) ==
    IF ~IsNumber(a) THEN a
    ELSE IF ~IsNumber(b) THEN b
    ELSE Norm(a[1] * b[1], a[2] * b[2])

TrueDiv(a, b) ==
    IF ~IsNumber(a) THEN a
    ELSE IF ~IsNumber(b) THEN b
    ELSE IF b[1] = 0 THEN ZeroDivisionError
    ELSE Norm(a[1] * b[2], a[2] * b[1])

Less(a, b) == a[1] * b[2] < b[1] * a[2]

\* ---------------------------------------------------------------- state
VARIABLES
    frame,                \* frame[p]: the locals of p's invocation in flight
    args,                 \* args[p]: what call site p passed in its last call
    ret,                  \* ret[p]: what call site p got back from it
    total_daily_insulin,  \* the driver's globals
    fasting_glucose,
    homa_ir_estimate,
    stdout,               \* the lines printed
    dpc,                  \* the driver's position
    driver_calls          \* how often the driver has called the function

vars == <<frame, args, ret, total_daily_insulin, fasting_glucose,
          homa_ir_estimate, stdout, dpc, driver_calls>>

driverVars == <<total_daily_insulin, fasting_glucose, homa_ir_estimate,
                stdout, dpc, driver_calls>>

\* ------------------------------------------------ variants of the statements
\* Each is one of the statements below with a slip in it.
NameError == <<0, 0, 0>>

Add(a, b) ==
    IF ~IsNumber(a) THEN a
    ELSE IF ~IsNumber(b) THEN b
    ELSE Norm(a[1] * b[2] + b[1] * a[2], a[2] * b[2])

\* reads the driver's global instead of the parameter
insulin_infusion_rate_IU_per_hour_global(total_daily_insulin_IU) ==
    IF total_daily_insulin = Unbound
       THEN NameError
       ELSE TrueDiv(total_daily_insulin, Rat(24))

\* the division by 60 minutes left out
insulin_infusion_rate_pmol_per_min_no60(rate_IU_per_hour) ==
    Mul(Mul(rate_IU_per_hour, Rat(6)), Rat(1000))

\* the mL to L factor left out
Css_pmol_per_L_per_mL(rate_pmol_per_min, clearance) ==
    TrueDiv(rate_pmol_per_min, clearance)

\* the unit conversion upside down
fasting_insulin_uU_per_mL_inverted(Css) ==
    TrueDiv(Rat(6), Css)

\* an additive baseline on top of the conversion
fasting_insulin_uU_per_mL_baseline(Css) ==
    Add(TrueDiv(Css, Rat(6)), Rat(1))

\* 450 for 405
homa_ir_450(fasting_insulin, fasting_glucose_mg_dl) ==
    TrueDiv(Mul(fasting_insulin, fasting_glucose_mg_dl), Rat(450))

\* a sum for the product
homa_ir_sum(fasting_insulin, fasting_glucose_mg_dl) ==
    TrueDiv(Add(fasting_insulin, fasting_glucose_mg_dl), Rat(405))

\* the glucose as the divisor
homa_ir_by_glucose(fasting_insulin, fasting_glucose_mg_dl) ==
    TrueDiv(Mul(fasting_insulin, Rat(405)), fasting_glucose_mg_dl)

\* reads the driver's global instead of the parameter
homa_ir_global(fasting_insulin, fasting_glucose_mg_dl) ==
    IF fasting_glucose = Unbound
       THEN NameError
       ELSE TrueDiv(Mul(fasting_insulin, fasting_glucose), Rat(405))

\* round(homa_ir, 2) inside the function
homa_ir_rounded(fasting_insulin, fasting_glucose_mg_dl) ==
    LET v == TrueDiv(Mul(fasting_insulin, fasting_glucose_mg_dl), Rat(405))
        m == Abs(v[1]) * 100
        q == m \div v[2]
        r == m % v[2]
        h == IF 2 * r > v[2] \/ (2 * r = v[2] /\ q % 2 = 1) THEN q + 1 ELSE q
    IN  Norm((IF v[1] < 0 THEN 0 - 1 ELSE 1) * h, 100)

\* ------------------------------------------- the statements of the function
\* Step 1: IU per hour.
insulin_infusion_rate_IU_per_hour(total_daily_insulin_IU) ==
    TrueDiv(total_daily_insulin_IU, Rat(24))

\* Step 2: IU/hour to pmol/min.
insulin_infusion_rate_pmol_per_min(rate_IU_per_hour) ==
    TrueDiv(Mul(Mul(rate_IU_per_hour, Rat(6)), Rat(1000)), Rat(60))

\* Step 3: steady-state concentration, with the assumed clearance rate.
insulin_clearance_mL_per_min == 1500

Css_pmol_per_L(rate_pmol_per_min, clearance) ==
    Mul(TrueDiv(rate_pmol_per_min, clearance), Rat(1000))

\* Step 4: pmol/L to uU/mL.
fasting_insulin_uU_per_mL(Css) ==
    TrueDiv(Css, Rat(6))

\* Step 5: the HOMA-IR ratio.
homa_ir(fasting_insulin, fasting_glucose_mg_dl) ==
    TrueDiv(Mul(fasting_insulin, fasting_glucose_mg_dl), Rat(405))

\* The function run alone, from call to return.
estimate_homa_ir(total_daily_insulin_IU, fasting_glucose_mg_dl) ==
    homa_ir(
        fasting_insulin_uU_per_mL(
            Css_pmol_per_L(
                insulin_infusion_rate_pmol_per_min(
                    insulin_infusion_rate_IU_per_hour(total_daily_insulin_IU)),
                Rat(insulin_clearance_mL_per_min))),
        fasting_glucose_mg_dl)

\* --------------------------------------------------- print formatting
Digit(i) == <<"0", "1", "2", "3", "4", "5", "6", "7", "8", "9">>[i + 1]

RECURSIVE IntToStr(_)
IntToStr(n) == IF n < 10 THEN Digit(n) ELSE IntToStr(n \div 10) \o Digit(n % 10)

\* |v| in hundredths, rounded to the nearest, ties to even.
Hundredths(v) ==
    LET a == Abs(v[1]) * 100
        q == a \div v[2]
        r == a % v[2]
    IN  IF 2 * r > v[2] \/ (2 * r = v[2] /\ q % 2 = 1) THEN q + 1 ELSE q

\* format(v, ".2f")
Format2f(v) ==
    LET m == Hundredths(v)
    IN  (IF v[1] < 0 THEN "-" ELSE "")
            \o IntToStr(m \div 100) \o "." \o Digit((m \div 10) % 10) \o Digit(m % 10)

\* --------------------------------------------------------------- frames
NoFrame ==
    [pc |-> "none",
     total_daily_insulin_IU |-> Unbound,
     fasting_glucose_mg_dl |-> Unbound,
     insulin_infusion_rate_IU_per_hour |-> Unbound,
     insulin_infusion_rate_pmol_per_min |-> Unbound,
     insulin_clearance_mL_per_min |-> Unbound,
     Css_pmol_per_L |-> Unbound,
     fasting_insulin_uU_per_mL |-> Unbound,
     homa_ir |-> Unbound]

NewFrame(d, g) ==
    [NoFrame EXCEPT !.pc = "L40",
                    !.total_daily_insulin_IU = d,
                    !.fasting_glucose_mg_dl = g]

Init ==
    /\ frame = [p \in Procs |-> NoFrame]
    /\ args = [p \in Workers |-> Unbound]
    /\ ret = [p \in Workers |-> Unbound]
    /\ total_daily_insulin = Unbound
    /\ fasting_glucose = Unbound
    /\ homa_ir_estimate = Unbound
    /\ stdout = <<>>
    /\ dpc = "L92"
    /\ driver_calls = 0

\* An exception leaves the function: the frame is gone and the caller has
\* the exception instead of a value.
Propagate(p, exc) ==
    /\ frame' = [frame EXCEPT ![p] = NoFrame]
    /\ IF p = Main
          THEN /\ dpc' = "traceback"
               /\ UNCHANGED <<args, ret, total_daily_insulin, fasting_glucose,
                              homa_ir_estimate, stdout, driver_calls>>
          ELSE /\ ret' = [ret EXCEPT ![p] = exc]
               /\ UNCHANGED <<args, driverVars>>

\* One assignment to a local of p's frame.
Assign(p, f, exc) ==
    IF Raised(exc)
       THEN Propagate(p, exc)
       ELSE /\ frame' = [frame EXCEPT ![p] = f]
            /\ UNCHANGED <<args, ret, driverVars>>

\* A call site other than the driver calls the function.
Call(p, d, g) ==
    /\ p \in Workers
    /\ frame[p].pc = "none"
    /\ frame' = [frame EXCEPT ![p] = NewFrame(Rat(d), Rat(g))]
    /\ args' = [args EXCEPT ![p] = <<Rat(d), Rat(g)>>]
    /\ ret' = [ret EXCEPT ![p] = Unbound]
    /\ UNCHANGED driverVars

Step1(p) ==
    /\ frame[p].pc = "L40"
    /\ LET v == insulin_infusion_rate_IU_per_hour(frame[p].total_daily_insulin_IU)
       IN  Assign(p, [frame[p] EXCEPT !.insulin_infusion_rate_IU_per_hour = v,
                                      !.pc = "L48"], v)

Step2(p) ==
    /\ frame[p].pc = "L48"
    /\ LET v == insulin_infusion_rate_pmol_per_min(
                    frame[p].insulin_infusion_rate_IU_per_hour)
       IN  Assign(p, [frame[p] EXCEPT !.insulin_infusion_rate_pmol_per_min = v,
                                      !.pc = "L56"], v)

Step3(p) ==
    /\ frame[p].pc = "L56"
    /\ LET cl == Rat(insulin_clearance_mL_per_min)
           v  == Css_pmol_per_L(frame[p].insulin_infusion_rate_pmol_per_min, cl)
       IN  Assign(p, [frame[p] EXCEPT !.insulin_clearance_mL_per_min = cl,
                                      !.Css_pmol_per_L = v,
                                      !.pc = "L64"], v)

Step4(p) ==
    /\ frame[p].pc = "L64"
    /\ LET v == fasting_insulin_uU_per_mL(frame[p].Css_pmol_per_L)
       IN  Assign(p, [frame[p] EXCEPT !.fasting_insulin_uU_per_mL = v,
                                      !.pc = "L68"], v)

Step5(p) ==
    /\ frame[p].pc = "L68"
    /\ LET v == homa_ir(frame[p].fasting_insulin_uU_per_mL,
                        frame[p].fasting_glucose_mg_dl)
       IN  Assign(p, [frame[p] EXCEPT !.homa_ir = v, !.pc = "L71"], v)

\* return homa_ir, to a call site other than the driver.
Return(p) ==
    /\ p \in Workers
    /\ frame[p].pc = "L71"
    /\ ret' = [ret EXCEPT ![p] = frame[p].homa_ir]
    /\ frame' = [frame EXCEPT ![p] = NoFrame]
    /\ UNCHANGED <<args, driverVars>>

\* ------------------------------------------------------------ the driver
DriverAssignInsulin ==
    /\ dpc = "L92"
    /\ total_daily_insulin' = Rat(ExampleInsulin)
    /\ dpc' = "L93"
    /\ UNCHANGED <<frame, args, ret, fasting_glucose, homa_ir_estimate,
                   stdout, driver_calls>>

DriverAssignGlucose ==
    /\ dpc = "L93"
    /\ fasting_glucose' = Rat(ExampleGlucose)
    /\ dpc' = "L96"
    /\ UNCHANGED <<frame, args, ret, total_daily_insulin, homa_ir_estimate,
                   stdout, driver_calls>>

DriverCall ==
    /\ dpc = "L96"
    /\ frame[Main].pc = "none"
    /\ frame' = [frame EXCEPT ![Main] = NewFrame(total_daily_insulin, fasting_glucose)]
    /\ driver_calls' = driver_calls + 1
    /\ dpc' = "L96_in_call"
    /\ UNCHANGED <<args, ret, total_daily_insulin, fasting_glucose,
                   homa_ir_estimate, stdout>>

DriverReturn ==
    /\ dpc = "L96_in_call"
    /\ frame[Main].pc = "L71"
    /\ homa_ir_estimate' = frame[Main].homa_ir
    /\ frame' = [frame EXCEPT ![Main] = NoFrame]
    /\ dpc' = "L99"
    /\ UNCHANGED <<args, ret, total_daily_insulin, fasting_glucose, stdout,
                   driver_calls>>

DriverPrint ==
    /\ dpc = "L99"
    /\ stdout' = Append(stdout, "Estimated HOMA-IR: " \o Format2f(homa_ir_estimate))
    /\ dpc' = "done"
    /\ UNCHANGED <<frame, args, ret, total_daily_insulin, fasting_glucose,
                   homa_ir_estimate, driver_calls>>

Next ==
    \/ \E p \in Workers, d \in DoseValues, g \in GlucoseValues : Call(p, d, g)
    \/ \E p \in Procs : Step1(p)
    \/ \E p \in Procs : Step2(p)
    \/ \E p \in Procs : Step3(p)
    \/ \E p \in Procs : Step4(p)
    \/ \E p \in Procs : Step5(p)
    \/ \E p \in Workers : Return(p)
    \/ DriverAssignInsulin
    \/ DriverAssignGlucose
    \/ DriverCall
    \/ DriverReturn
    \/ DriverPrint

Spec == Init /\ [][Next]_vars

\* ================================================================ claims
Zero == Rat(0)

\* What call site p passed, and what it holds as the call's outcome.
SiteArgs(p) ==
    IF p = Main THEN <<total_daily_insulin, fasting_glucose>> ELSE args[p]

SiteRet(p) ==
    IF p = Main
       THEN (IF dpc = "traceback" THEN ZeroDivisionError ELSE homa_ir_estimate)
       ELSE ret[p]

HasArgs(p) ==
    /\ SiteArgs(p) # Unbound
    /\ SiteArgs(p)[1] # Unbound
    /\ SiteArgs(p)[2] # Unbound

Finished(p) == HasArgs(p) /\ SiteRet(p) # Unbound

DoseOf(p)    == SiteArgs(p)[1][1]
GlucoseOf(p) == SiteArgs(p)[2][1]

Locals ==
    {"insulin_infusion_rate_IU_per_hour", "insulin_infusion_rate_pmol_per_min",
     "Css_pmol_per_L", "fasting_insulin_uU_per_mL", "homa_ir"}

\* The chain of the specification, one literal at a time, on integers d, g.
Chain1(d) == Norm(d, 24)
Chain2(d) == LET a == Chain1(d) IN Norm(a[1] * 6 * 1000, a[2] * 60)
Chain3(d) == LET a == Chain2(d) IN Norm(a[1] * 1000, a[2] * 1500)
Chain4(d) == LET a == Chain3(d) IN Norm(a[1], a[2] * 6)
Chain5(d, g) == LET a == Chain4(d) IN Norm(a[1] * g, a[2] * 405)

\* v rounded to two decimal places, as a number.
Round2(v) == Norm((IF v[1] < 0 THEN 0 - 1 ELSE 1) * Hundredths(v), 100)

BoundOrIs(v, w) == v = Unbound \/ v = w

\* C1: for non-negative d and g every local the function has assigned is the
\* corresponding step of (((((d/24)*6*1000/60)/1500)*1000)/6*g)/405, all five
\* are assigned by the time of the return, and the value returned is the
\* chain's last step.
C1_FiveStepChain ==
    /\ \A p \in Procs :
          LET f == frame[p]
              d == f.total_daily_insulin_IU[1]
              g == f.fasting_glucose_mg_dl[1]
          IN  (f.pc # "none" /\ d >= 0 /\ g >= 0) =>
                /\ BoundOrIs(f.insulin_infusion_rate_IU_per_hour, Chain1(d))
                /\ BoundOrIs(f.insulin_infusion_rate_pmol_per_min, Chain2(d))
                /\ BoundOrIs(f.Css_pmol_per_L, Chain3(d))
                /\ BoundOrIs(f.fasting_insulin_uU_per_mL, Chain4(d))
                /\ BoundOrIs(f.homa_ir, Chain5(d, g))
                /\ (f.pc = "L71" => \A l \in Locals : f[l] # Unbound)
    /\ \A p \in Procs :
          (Finished(p) /\ DoseOf(p) >= 0 /\ GlucoseOf(p) >= 0) =>
              SiteRet(p) = Chain5(DoseOf(p), GlucoseOf(p))

C1_Witness ==
    \E p \in Workers :
        /\ Finished(p) /\ DoseOf(p) > 0 /\ GlucoseOf(p) > 0
        /\ IsNumber(ret[p]) /\ ret[p][2] # 1

\* C2 as stated: the value returned for (d, g) is d * g / 145800.
C2_Original ==
    \A p \in Procs :
        (Finished(p) /\ IsNumber(SiteRet(p))) =>
            SiteRet(p)[1] * 145800 = DoseOf(p) * GlucoseOf(p) * SiteRet(p)[2]

\* C2 amended: the value returned for (d, g) is 5 * d * g / 4374, that is
\* d * g / 874.8.
C2_Simplified ==
    \A p \in Procs :
        Finished(p) =>
            /\ IsNumber(SiteRet(p))
            /\ SiteRet(p)[1] * 4374 = 5 * DoseOf(p) * GlucoseOf(p) * SiteRet(p)[2]

C2_Witness ==
    \E p \in Workers :
        Finished(p) /\ DoseOf(p) = 1 /\ GlucoseOf(p) = 1 /\ ret[p] = <<5, 4374>>

\* C3: the driver calls the function once, with (20, 140); the value it gets
\* back lies in [3.195, 3.205), and the one line it prints is
\* "Estimated HOMA-IR: 3.20".
C3_WorkedExample ==
    /\ dpc # "traceback"
    /\ driver_calls = (IF dpc \in {"L92", "L93", "L96"} THEN 0 ELSE 1)
    /\ frame[Main].pc # "none" =>
          /\ dpc = "L96_in_call"
          /\ frame[Main].total_daily_insulin_IU = Rat(20)
          /\ frame[Main].fasting_glucose_mg_dl = Rat(140)
    /\ dpc \in {"L99", "done"} =>
          /\ IsNumber(homa_ir_estimate)
          /\ ~Less(homa_ir_estimate, <<3195, 1000>>)
          /\ Less(homa_ir_estimate, <<3205, 1000>>)
          /\ Format2f(homa_ir_estimate) = "3.20"
    /\ stdout = (IF dpc = "done" THEN <<"Estimated HOMA-IR: 3.20">> ELSE <<>>)

C3_Witness ==
    dpc = "done" /\ Len(stdout) = 1 /\ driver_calls = 1

\* C4: with a dose of zero every local of the four conversions is zero and
\* the value returned is zero.
C4_ZeroDose ==
    /\ \A p \in Procs :
          (frame[p].pc # "none" /\ frame[p].total_daily_insulin_IU = Zero) =>
              \A l \in Locals : BoundOrIs(frame[p][l], Zero)
    /\ \A p \in Procs :
          (Finished(p) /\ DoseOf(p) = 0) => SiteRet(p) = Zero

C4_Witness ==
    \E p \in Workers :
        Finished(p) /\ DoseOf(p) = 0 /\ GlucoseOf(p) # 0 /\ ret[p] = Zero

\* C5: with a fasting glucose of zero the value computed and returned is
\* zero, whatever the fasting-insulin estimate.
C5_ZeroGlucose ==
    /\ \A p \in Procs :
          (frame[p].pc = "L71" /\ frame[p].fasting_glucose_mg_dl = Zero) =>
              frame[p].homa_ir = Zero
    /\ \A p \in Procs :
          (Finished(p) /\ GlucoseOf(p) = 0) => SiteRet(p) = Zero

C5_Witness ==
    \E p \in Workers :
        /\ frame[p].pc = "L71" /\ frame[p].fasting_glucose_mg_dl = Zero
        /\ frame[p].fasting_insulin_uU_per_mL \notin {Unbound, Zero}
        /\ frame[p].homa_ir = Zero

\* C6: doubling either argument doubles the result: the value a call site
\* got back for (d, g), doubled, is what the function gives for (2d, g) and
\* for (d, 2g).
C6_LinearScaling ==
    \A p \in Procs :
        Finished(p) =>
            LET twice == Mul(Rat(2), SiteRet(p))
            IN  /\ estimate_homa_ir(Rat(2 * DoseOf(p)), Rat(GlucoseOf(p))) = twice
                /\ estimate_homa_ir(Rat(DoseOf(p)), Rat(2 * GlucoseOf(p))) = twice

C6_Witness ==
    \E p \in Workers :
        /\ Finished(p) /\ DoseOf(p) = ExampleInsulin /\ GlucoseOf(p) = 1
        /\ IsNumber(ret[p]) /\ ret[p] # Zero

\* C7: two finished calls with the same arguments have the same outcome,
\* whichever call sites made them and whatever ran in between.
C7_Determinism ==
    \A p, q \in Procs :
        (Finished(p) /\ Finished(q) /\ SiteArgs(p) = SiteArgs(q)) =>
            SiteRet(p) = SiteRet(q)

C7_Witness ==
    \E p \in Workers :
        /\ Finished(Main) /\ Finished(p)
        /\ SiteArgs(p) = SiteArgs(Main)
        /\ IsNumber(ret[p])

\* C8: no call ends in an exception: the clearance divisor a frame holds is
\* never zero, no call site holds an exception, the driver never stops in a
\* traceback, and what a call site gets back is a number.
C8_NoErrorState ==
    /\ dpc # "traceback"
    /\ \A p \in Procs :
          /\ frame[p].insulin_clearance_mL_per_min \notin {Zero, ZeroDivisionError}
          /\ ~Raised(SiteRet(p))
          /\ Finished(p) => IsNumber(SiteRet(p))

C8_Witness ==
    \E p \in Workers :
        Finished(p) /\ DoseOf(p) < 0 /\ GlucoseOf(p) = 0 /\ IsNumber(ret[p])

\* C9: what the function returns is the unrounded value of step 5: the
\* driver holds 7000/2187 for (20, 140), not 3.20, before and after printing
\* it as 3.20; and a call site holds a whole number of hundredths only when
\* the chain's value is one.
C9_NoRoundingInside ==
    /\ dpc \in {"L99", "done"} =>
          /\ homa_ir_estimate = <<7000, 2187>>
          /\ Round2(homa_ir_estimate) = <<16, 5>>
          /\ homa_ir_estimate # Round2(homa_ir_estimate)
    /\ dpc = "done" => stdout[1] = "Estimated HOMA-IR: " \o Format2f(<<16, 5>>)
    /\ \A p \in Workers :
          (Finished(p) /\ IsNumber(ret[p]) /\ ret[p] = Round2(ret[p])) =>
              Chain5(DoseOf(p), GlucoseOf(p))
                  = Round2(Chain5(DoseOf(p), GlucoseOf(p)))

C9_Witness ==
    /\ dpc = "done"
    /\ homa_ir_estimate # Round2(homa_ir_estimate)
    /\ \E p \in Workers :
          Finished(p) /\ IsNumber(ret[p]) /\ ret[p] # Round2(ret[p])

\* C10: however the statements of several invocations interleave, a frame
\* holds its own call's arguments, each local it has assigned is what the
\* function run alone computes from them, and the value a call site gets
\* back is the value of the function run alone on its arguments.
C10_Interleaving ==
    /\ \A p \in Procs :
          LET f == frame[p]
              d == f.total_daily_insulin_IU
              g == f.fasting_glucose_mg_dl
              s1 == insulin_infusion_rate_IU_per_hour(d)
              s2 == insulin_infusion_rate_pmol_per_min(s1)
              s3 == Css_pmol_per_L(s2, Rat(insulin_clearance_mL_per_min))
              s4 == fasting_insulin_uU_per_mL(s3)
          IN  f.pc # "none" =>
                /\ <<d, g>> = SiteArgs(p)
                /\ BoundOrIs(f.insulin_infusion_rate_IU_per_hour, s1)
                /\ BoundOrIs(f.insulin_infusion_rate_pmol_per_min, s2)
                /\ BoundOrIs(f.Css_pmol_per_L, s3)
                /\ BoundOrIs(f.fasting_insulin_uU_per_mL, s4)
                /\ BoundOrIs(f.homa_ir, homa_ir(s4, g))
    /\ \A p \in Procs :
          Finished(p) =>
              SiteRet(p) = estimate_homa_ir(SiteArgs(p)[1], SiteArgs(p)[2])

C10_Witness ==
    \E p \in Workers :
        /\ frame[Main].pc = "L68"
        /\ frame[p].pc = "L56"
        /\ SiteArgs(p) # SiteArgs(Main)
        /\ dpc = "L96_in_call"

====
